---- MODULE Spec2Model ----
(***************************************************************************)
(* A model of modbus.py: the interactive session of main(), read_all_data, *)
(* the single read/write operations, and the two asyncio probe engines     *)
(* (scan_modbus_unit_ids, brute_force_function_codes) together with the    *)
(* event loop they share through asyncio.get_event_loop().                 *)
(*                                                                         *)
(* The pymodbus client and the device are the environment: every call into *)
(* the client returns a data response, returns an error response, or       *)
(* raises, chosen nondeterministically.  A KeyboardInterrupt is modelled   *)
(* while loop.run_until_complete is running.                               *)
(***************************************************************************)
EXTENDS Integers, Sequences, FiniteSets, TLC

MaxRuns == 2    \* scans / brute forces started in one session
MaxUnit == 2    \* largest unit id and largest function code that is probed
MaxConc == 1    \* largest value given to --max-concurrent-tasks

Runs   == 1..MaxRuns
Items  == 1..MaxUnit
Tasks  == Runs \X Items
NoTask == <<0, 0>>

VARIABLES
    args,        \* parsed command line: unit_id_from, unit_id_to, max_concurrent_tasks
    mainpc,      \* position of main()
    crash,       \* the exception that left main() unhandled, or "none"
    client,      \* the session's ModbusTcpClient: "unconnected", "connected", "closed"
    reported,    \* what the last operation printed
    lastReq,     \* the request read_registers / write_registers handed to the client
    rapc,        \* position of read_all_data
    attempted,   \* register spaces read_all_data has asked the client for, in order
    rresp,       \* per register space: the kind of response the client gave
    rdata,       \* per register space: coils_data ... holding_registers_data
    records,     \* the rows displayed and exported by read_all_data
    nruns,       \* number of scan / brute force calls made so far
    runkind,     \* per call: "scan" or "brute"
    runlo,       \* per call: first unit id / function code of the range
    runhi,       \* per call: last unit id / function code of the range
    runstate,    \* per call: "none", "running", "completed", "interrupted", "returned"
    sem,         \* per call: value of its asyncio.Semaphore
    waiters,     \* per call: tasks suspended in semaphore.acquire()
    results,     \* per call: its results list
    ready,       \* the event loop's queue of tasks that are ready to run
    cur,         \* the task the event loop is running, or NoTask
    tpc,         \* per task: position of the probe coroutine
    tresp,       \* per task: what its probe got from the device
    open,        \* the probe clients whose socket is open, each named by the task that made it
    lastSaved,   \* run and content of the results file written last
    atInterrupt  \* the results list as it was when the last interrupt arrived

mainVars == <<args, mainpc, crash, client, reported, lastReq>>
readVars == <<rapc, attempted, rresp, rdata, records>>
runVars  == <<nruns, runkind, runlo, runhi, runstate, lastSaved, atInterrupt>>
loopVars == <<sem, waiters, results, ready, cur, tpc, tresp, open>>
vars     == <<mainVars, readVars, runVars, loopVars>>

----------------------------------------------------------------------------
(* Sequences *)

SeqSet(s) == {s[i] : i \in 1..Len(s)}

----------------------------------------------------------------------------
(* Python values: str, bool, int and list, tagged with their type.  A str  *)
(* is the sequence of its characters, each character its code point.       *)

PyStr(cs)  == [ty |-> "str",  v |-> cs]
PyBool(b)  == [ty |-> "bool", v |-> b]
PyInt(n)   == [ty |-> "int",  v |-> n]
PyList(xs) == [ty |-> "list", v |-> xs]
PyNone     == [ty |-> "none", v |-> <<>>]

\* a result that is either a value or a raised exception
Returns(x) == [raised |-> "none", value |-> x]
Raises(e)  == [raised |-> e, value |-> PyNone]

\* iterating a str yields its characters, iterating a list its items
Iter(x) == IF x.ty = "str" THEN [i \in 1..Len(x.v) |-> PyStr(<<x.v[i]>>)] ELSE x.v

\* bool(x): a str or list is true when it is not empty, an int when it is not 0
Truth(x) ==
    CASE x.ty = "bool" -> x.v
      [] x.ty = "int"  -> x.v # 0
      [] x.ty = "str"  -> Len(x.v) > 0
      [] x.ty = "list" -> Len(x.v) > 0
      [] OTHER         -> FALSE

\* the literals of read_all_data
ErrorReadingCoils            == PyStr(<<69, 114, 114, 111, 114, 32, 114, 101, 97, 100, 105, 110, 103, 32, 99, 111, 105, 108, 115>>)  \* "Error reading coils"
ErrorReadingDiscreteInputs   == PyStr(<<69, 114, 114, 111, 114, 32, 114, 101, 97, 100, 105, 110, 103, 32, 100, 105, 115, 99, 114, 101, 116, 101, 32, 105, 110, 112, 117, 116, 115>>)  \* "Error reading discrete inputs"
ErrorReadingInputRegisters   == PyStr(<<69, 114, 114, 111, 114, 32, 114, 101, 97, 100, 105, 110, 103, 32, 105, 110, 112, 117, 116, 32, 114, 101, 103, 105, 115, 116, 101, 114, 115>>)  \* "Error reading input registers"
ErrorReadingHoldingRegisters == PyStr(<<69, 114, 114, 111, 114, 32, 114, 101, 97, 100, 105, 110, 103, 32, 104, 111, 108, 100, 105, 110, 103, 32, 114, 101, 103, 105, 115, 116, 101, 114, 115>>)  \* "Error reading holding registers"

RegisterSpaces == <<"coils", "discrete_inputs", "input_registers", "holding_registers">>

ErrorLiteral(register_type) ==
    CASE register_type = "coils"           -> ErrorReadingCoils
      [] register_type = "discrete_inputs" -> ErrorReadingDiscreteInputs
      [] register_type = "input_registers" -> ErrorReadingInputRegisters
      [] OTHER                             -> ErrorReadingHoldingRegisters

RowName(register_type) ==
    CASE register_type = "coils"           -> "Coils"
      [] register_type = "discrete_inputs" -> "Discrete Inputs"
      [] register_type = "input_registers" -> "Input Registers"
      [] OTHER                             -> "Holding Registers"

\* [bool(bit) for bit in data]
BoolList(data) ==
    PyList([i \in 1..Len(Iter(data)) |-> PyBool(Truth(Iter(data)[i]))])

format_data(register_type, data) ==
    IF register_type \in {"coils", "discrete_inputs"}
    THEN BoolList(data)
    ELSE IF register_type \in {"input_registers", "holding_registers"}
    THEN IF data.ty = "list" THEN data ELSE PyList(<<data>>)
    ELSE data

\* bytes.fromhex: ASCII whitespace is skipped, the rest must be pairs of hex digits
IsSpaceChar(c) == c \in {9, 10, 11, 12, 13, 32}
IsHexChar(c)   == c \in (48..57) \cup (65..70) \cup (97..102)
HexVal(c)      == IF c <= 57 THEN c - 48 ELSE IF c <= 70 THEN c - 55 ELSE c - 87

RECURSIVE FromHex(_)
FromHex(cs) ==
    IF cs = <<>> THEN Returns(<<>>)
    ELSE IF IsSpaceChar(cs[1]) THEN FromHex(Tail(cs))
    ELSE IF Len(cs) < 2 \/ ~IsHexChar(cs[1]) \/ ~IsHexChar(cs[2]) THEN Raises("ValueError")
    ELSE LET rest == FromHex(Tail(Tail(cs)))
         IN  IF rest.raised # "none" THEN rest
             ELSE Returns(<<16 * HexVal(cs[1]) + HexVal(cs[2])>> \o rest.value)

\* bytes.decode('utf-8', errors='ignore') on single-byte characters: a byte that
\* does not start a valid character is dropped
RECURSIVE DecodeIgnore(_)
DecodeIgnore(bs) ==
    IF bs = <<>> THEN <<>>
    ELSE IF bs[1] < 128 THEN <<bs[1]>> \o DecodeIgnore(Tail(bs))
    ELSE DecodeIgnore(Tail(bs))

decode_hex_response(hex_data) ==
    IF hex_data.ty \in {"int", "bool"}
    THEN Returns(PyStr(<<IF hex_data.ty = "bool" THEN (IF hex_data.v THEN 1 ELSE 0) ELSE hex_data.v>>))
    ELSE LET cs    == hex_data.v
             strip == IF Len(cs) >= 2 /\ cs[1] = 48 /\ cs[2] = 120 THEN Tail(Tail(cs)) ELSE cs
             bytes == FromHex(strip)
         IN  IF bytes.raised # "none" THEN bytes
             ELSE Returns(PyStr(DecodeIgnore(bytes.value)))

\* the inner loop of translate_hex_values over the values of one register row
RECURSIVE TranslateValues(_)
TranslateValues(vals) ==
    IF vals = <<>> THEN Returns(<<>>)
    ELSE LET one  == decode_hex_response(vals[1])
             rest == TranslateValues(Tail(vals))
         IN  IF one.raised # "none" THEN one
             ELSE IF rest.raised # "none" THEN rest
             ELSE Returns(<<one.value>> \o rest.value)

\* data is the list of rows [name, data] built by read_all_data
RECURSIVE translate_hex_values(_)
translate_hex_values(data) ==
    IF data = <<>> THEN Returns(<<>>)
    ELSE LET item == data[1]
             row  == IF item.name \in {"Coils", "Discrete Inputs"}
                     THEN Returns(<<[name |-> item.name, data |-> BoolList(item.data)]>>)
                     ELSE IF item.name \in {"Input Registers", "Holding Registers"}
                     THEN LET tv == TranslateValues(Iter(item.data))
                          IN  IF tv.raised # "none" THEN tv
                              ELSE Returns(<<[name |-> item.name, data |-> PyList(tv.value)]>>)
                     ELSE Returns(<<>>)
             rest == IF row.raised # "none" THEN row ELSE translate_hex_values(Tail(data))
         IN  IF row.raised # "none" THEN row
             ELSE IF rest.raised # "none" THEN rest
             ELSE Returns(row.value \o rest.value)

----------------------------------------------------------------------------
(* The environment: what the device may hold and what a client call may do *)

BitsOnDevice      == {<<TRUE, FALSE>>, <<FALSE, FALSE>>}
RegistersOnDevice == {<<72, 105>>}

PyBits(bs)      == PyList([i \in 1..Len(bs) |-> PyBool(bs[i])])
PyRegisters(rs) == PyList([i \in 1..Len(rs) |-> PyInt(rs[i])])

\* response.bits / response.registers of the data responses to a read of a space
DataOf(register_type) ==
    IF register_type \in {"coils", "discrete_inputs"}
    THEN {PyBits(bs) : bs \in BitsOnDevice}
    ELSE {PyRegisters(rs) : rs \in RegistersOnDevice}

\* a client call returns data, returns a response whose isError() is true, or
\* raises a ModbusException
ClientOutcomes(register_type) ==
    {[kind |-> "data", value |-> d] : d \in DataOf(register_type)}
        \cup {[kind |-> "error", value |-> PyNone], [kind |-> "raise", value |-> PyNone]}

NoData == [s \in SeqSet(RegisterSpaces) |-> PyNone]
NoResp == [s \in SeqSet(RegisterSpaces) |-> "none"]

\* --unit-id-from is left at its default
DefaultUnitIdFrom == 1

Ranges == {<<lo, hi>> \in Items \X Items : lo <= hi}

Init ==
    /\ args \in {[unit_id_from |-> DefaultUnitIdFrom, unit_id_to |-> to, max_concurrent_tasks |-> m] :
                    to \in Items, m \in 0..MaxConc}
    /\ mainpc = "start"
    /\ crash = "none"
    /\ client = "unconnected"
    /\ reported = "none"
    /\ lastReq = <<>>
    /\ rapc = "idle"
    /\ attempted = <<>>
    /\ rresp = NoResp
    /\ rdata = NoData
    /\ records = <<>>
    /\ nruns = 0
    /\ runkind = [r \in Runs |-> "none"]
    /\ runlo = [r \in Runs |-> 0]
    /\ runhi = [r \in Runs |-> 0]
    /\ runstate = [r \in Runs |-> "none"]
    /\ sem = [r \in Runs |-> 0]
    /\ waiters = [r \in Runs |-> <<>>]
    /\ results = [r \in Runs |-> <<>>]
    /\ ready = <<>>
    /\ cur = NoTask
    /\ tpc = [t \in Tasks |-> "none"]
    /\ tresp = [t \in Tasks |-> "none"]
    /\ open = {}
    /\ lastSaved = <<0, <<>>>>
    /\ atInterrupt = <<>>

----------------------------------------------------------------------------
(* main: connecting *)

\* client.connect() returns True, returns False, or raises ConnectionException;
\* the finally clause closes the client on the two paths that leave main
main_connect ==
    /\ mainpc = "start"
    /\ \E connection \in {"True", "False", "ConnectionException"} :
          IF connection = "True"
          THEN /\ mainpc' = "read_all_init"
               /\ client' = "connected"
               /\ reported' = "connected"
               /\ rapc' = "coils"
          ELSE /\ mainpc' = "terminated"
               /\ client' = "closed"
               /\ reported' = connection
               /\ rapc' = rapc
    /\ UNCHANGED <<args, crash, lastReq, attempted, rresp, rdata, records, runVars, loopVars>>

----------------------------------------------------------------------------
(* read_all_data *)

InReadAll == mainpc \in {"read_all_init", "read_all_loop"}

NextSpace(register_type) ==
    CASE register_type = "coils"           -> "discrete_inputs"
      [] register_type = "discrete_inputs" -> "input_registers"
      [] register_type = "input_registers" -> "holding_registers"
      [] OTHER                             -> "report"

\* the value handed to format_data: response.bits / response.registers
\* if not response.isError() else the error literal of the space
ValueOrLiteral(register_type, outcome) ==
    IF outcome.kind = "data" THEN outcome.value ELSE ErrorLiteral(register_type)

\* one of the four client reads with its format_data call; a ModbusException
\* raised by the client is caught by the except clause that ends the function
read_all_data_read ==
    /\ InReadAll
    /\ rapc \in SeqSet(RegisterSpaces)
    /\ \E outcome \in ClientOutcomes(rapc) :
          /\ attempted' = Append(attempted, rapc)
          /\ rresp' = [rresp EXCEPT ![rapc] = outcome.kind]
          /\ IF outcome.kind = "raise"
             THEN /\ rapc' = "returned"
                  /\ reported' = "Failed to read all data"
                  /\ rdata' = rdata
             ELSE /\ rapc' = NextSpace(rapc)
                  /\ reported' = reported
                  /\ rdata' = [rdata EXCEPT ![rapc] = format_data(rapc, ValueOrLiteral(rapc, outcome))]
    /\ UNCHANGED <<args, mainpc, crash, client, lastReq, records, runVars, loopVars>>

\* the table that is printed and the rows saved to CSV and JSON
read_all_data_report ==
    /\ InReadAll
    /\ rapc = "report"
    /\ records' = [i \in 1..4 |-> [name |-> RowName(RegisterSpaces[i]), data |-> rdata[RegisterSpaces[i]]]]
    /\ rapc' = "translate"
    /\ UNCHANGED <<mainVars, attempted, rresp, rdata, runVars, loopVars>>

ResetRead ==
    /\ rapc' = "idle"
    /\ attempted' = <<>>
    /\ rresp' = NoResp
    /\ rdata' = NoData
    /\ records' = <<>>

\* translate_hex_values(data) and the second table.  A ValueError is no
\* ModbusException: it leaves read_all_data.  The call of line 425 is outside
\* the try of the operation loop, so there only the finally clause runs; the call
\* of line 437 is inside it and the ValueError is caught at line 470.
read_all_data_translate ==
    /\ InReadAll
    /\ rapc = "translate"
    /\ LET translated_data == translate_hex_values(records)
       IN  IF translated_data.raised = "none"
           THEN /\ rapc' = "returned"
                /\ UNCHANGED <<mainpc, crash, client, reported, attempted, rresp, rdata, records>>
           ELSE IF mainpc = "read_all_init"
           THEN /\ mainpc' = "crashed"
                /\ crash' = translated_data.raised
                /\ client' = "closed"
                /\ reported' = "traceback"
                /\ ResetRead
           ELSE /\ mainpc' = "prompt"
                /\ crash' = crash
                /\ client' = client
                /\ reported' = "Value error"
                /\ ResetRead
    /\ UNCHANGED <<args, lastReq, runVars, loopVars>>

\* read_all_data returns to main, which goes to the operation prompt
read_all_data_return ==
    /\ InReadAll
    /\ rapc = "returned"
    /\ mainpc' = "prompt"
    /\ ResetRead
    /\ UNCHANGED <<args, crash, client, reported, lastReq, runVars, loopVars>>

----------------------------------------------------------------------------
(* main: the operation loop *)

NoFile == <<0, <<>>>>

\* what a new operation clears: the previous report and results file
Fresh ==
    /\ reported' = "none"
    /\ lastSaved' = NoFile
    /\ atInterrupt' = <<>>

\* read / all
main_read_all ==
    /\ mainpc = "prompt"
    /\ mainpc' = "read_all_loop"
    /\ rapc' = "coils"
    /\ Fresh
    /\ UNCHANGED <<args, crash, client, lastReq, attempted, rresp, rdata, records,
                   nruns, runkind, runlo, runhi, runstate, loopVars>>

\* the counts the user may enter, and the count of the "read all addresses" path
ReadCounts == {1, 125, 126, 2001}
AllAddresses == 65535

\* read_registers: the request is handed to the client as given
read_registers(register_type, address, count) ==
    IF register_type \in SeqSet(RegisterSpaces)
    THEN Returns([op |-> "read", type |-> register_type, address |-> address, count |-> count])
    ELSE Raises("ValueError")

\* read / one register type: either all addresses or an address and a count
main_read ==
    /\ mainpc = "prompt"
    /\ \E register_type \in SeqSet(RegisterSpaces), read_all \in BOOLEAN, count \in ReadCounts :
          LET call == IF read_all THEN read_registers(register_type, 0, AllAddresses)
                      ELSE read_registers(register_type, 0, count)
          IN  /\ read_all => count = 1
              /\ lastReq' = <<call.value>>
    /\ mainpc' = "reading"
    /\ Fresh
    /\ UNCHANGED <<args, crash, client, readVars, nruns, runkind, runlo, runhi, runstate, loopVars>>

\* write_registers: only coils and holding registers can be written
write_registers(register_type, address, values) ==
    IF register_type \in {"coils", "holding_registers"}
    THEN Returns([op |-> "write", type |-> register_type, address |-> address, count |-> Len(values)])
    ELSE Raises("ValueError")

main_write ==
    /\ mainpc = "prompt"
    /\ \E register_type \in {"coils", "holding_registers"} :
          LET values == IF register_type = "coils" THEN <<TRUE, FALSE>> ELSE <<72, 105>>
              call   == write_registers(register_type, 0, values)
          IN  lastReq' = <<call.value>>
    /\ mainpc' = "writing"
    /\ Fresh
    /\ UNCHANGED <<args, crash, client, readVars, nruns, runkind, runlo, runhi, runstate, loopVars>>

\* the client answers the read or write: the response is printed, an error
\* response is printed as an error, a ModbusException is caught at line 472
main_response ==
    /\ mainpc \in {"reading", "writing"}
    /\ \E outcome \in {"data", "error", "raise"} :
          reported' = CASE outcome = "raise" -> "Modbus exception"
                        [] outcome = "error" /\ mainpc = "reading" -> "Error reading registers"
                        [] outcome = "error" /\ mainpc = "writing" -> "Error writing data"
                        [] outcome = "data" /\ mainpc = "reading"  -> "Register values"
                        [] OTHER -> "Data written successfully"
    /\ mainpc' = "prompt"
    /\ lastReq' = <<>>
    /\ UNCHANGED <<args, crash, client, readVars, runVars, loopVars>>

\* int(input(...)) of a function code that is no number: ValueError, line 470
main_bruteforce_bad_code ==
    /\ mainpc = "prompt"
    /\ reported' = "Value error"
    /\ lastSaved' = NoFile
    /\ atInterrupt' = <<>>
    /\ UNCHANGED <<args, mainpc, crash, client, lastReq, readVars,
                   nruns, runkind, runlo, runhi, runstate, loopVars>>

\* exit: the loop ends and the finally clause closes the client
main_exit ==
    /\ mainpc = "prompt"
    /\ mainpc' = "exited"
    /\ client' = "closed"
    /\ Fresh
    /\ UNCHANGED <<args, crash, lastReq, readVars, nruns, runkind, runlo, runhi, runstate, loopVars>>

----------------------------------------------------------------------------
(* The probe engines and the event loop *)

Terminal == {"done", "abandoned"}

TasksOf(r) == {<<r, i>> : i \in runlo[r]..runhi[r]}

\* a semaphore created with one slot too many
SemaphoreValueOffByOne(max_concurrent_tasks) == max_concurrent_tasks + 1

\* asyncio.Semaphore(max_concurrent_tasks)
SemaphoreValue(max_concurrent_tasks) == max_concurrent_tasks

\* Semaphore.locked()
Locked(value) == value <= 0

\* probes of a call that hold a slot of its semaphore and have not ended
InFlight(r) == {t \in Tasks : t[1] = r /\ tpc[t] \in {"admitted", "connected", "responded"}}

\* the tasks list and asyncio.gather: one task per value of the range, each
\* scheduled on the loop in the order of the range
StartRun(kind, lo, hi) ==
    LET r == nruns + 1
    IN  /\ nruns < MaxRuns
        /\ nruns' = r
        /\ runkind' = [runkind EXCEPT ![r] = kind]
        /\ runlo' = [runlo EXCEPT ![r] = lo]
        /\ runhi' = [runhi EXCEPT ![r] = hi]
        /\ runstate' = [runstate EXCEPT ![r] = "running"]
        /\ sem' = [sem EXCEPT ![r] = SemaphoreValue(args.max_concurrent_tasks)]
        /\ results' = [results EXCEPT ![r] = <<>>]
        /\ tpc' = [t \in Tasks |-> IF t[1] = r /\ t[2] \in lo..hi THEN "pending" ELSE tpc[t]]
        /\ ready' = ready \o [i \in 1..(hi - lo + 1) |-> <<r, lo + i - 1>>]
        /\ mainpc' = "running"
        /\ Fresh
        /\ UNCHANGED <<args, crash, client, lastReq, readVars, waiters, cur, tresp, open>>

\* scan: the range is the one of the command line
scan_modbus_unit_ids ==
    /\ mainpc = "prompt"
    /\ StartRun("scan", args.unit_id_from, args.unit_id_to)

\* bruteforce: the range is entered at the prompt
brute_force_function_codes ==
    /\ mainpc = "prompt"
    /\ \E range \in Ranges : StartRun("brute", range[1], range[2])

\* semaphore.release(): the value goes up and the first waiter is made ready
Release(r) ==
    /\ sem' = [sem EXCEPT ![r] = @ + 1]
    /\ IF waiters[r] # <<>>
       THEN /\ waiters' = [waiters EXCEPT ![r] = Tail(@)]
            /\ ready' = Append(ready, Head(waiters[r]))
       ELSE UNCHANGED <<waiters, ready>>

\* the loop runs the next ready task up to its first suspension: it enters
\* "async with semaphore", which suspends only when the semaphore is locked
task_start ==
    /\ mainpc = "running"
    /\ cur = NoTask
    /\ ready # <<>>
    /\ LET t == Head(ready)
           r == t[1]
       IN  /\ ready' = Tail(ready)
           /\ IF Locked(sem[r])
              THEN /\ waiters' = [waiters EXCEPT ![r] = Append(@, t)]
                   /\ tpc' = [tpc EXCEPT ![t] = "waiting"]
                   /\ UNCHANGED <<sem, cur>>
              ELSE /\ sem' = [sem EXCEPT ![r] = @ - 1]
                   /\ tpc' = [tpc EXCEPT ![t] = "admitted"]
                   /\ cur' = t
                   /\ UNCHANGED waiters
    /\ UNCHANGED <<mainVars, readVars, runVars, results, tresp, open>>

\* the client made by main at line 417, as a name beside those of the probe clients
SessionClient == <<0, 1>>

\* a probe that takes the session's client instead of making its own
SharedClient(t) == SessionClient

\* client = get_modbus_client(ip_address, port): every probe makes its own client
ProbeClient(t) == t

\* A task of an earlier call, which has returned, is referred to by nothing once
\* it has ended: it is dropped from the state together with what it received.
Ended(t, how)     == IF t[1] = nruns THEN how ELSE "none"
StillOpen(t, socks) == IF t[1] = nruns THEN socks ELSE socks \ {ProbeClient(t)}

\* a probe body without its except clause
ExceptionNotCaught == FALSE

\* except Exception around the body of a probe
CatchesException == TRUE

\* A probe has raised.  Its except clause passes: nothing is appended and
\* "async with" releases the semaphore.  (Were the exception not caught, it
\* would end the task, reach run_until_complete through gather and leave the
\* calling function; main reports it at line 474.)
ProbeRaised(t, what) ==
    /\ tresp' = [tresp EXCEPT ![t] = Ended(t, what)]
    /\ tpc' = [tpc EXCEPT ![t] = Ended(t, "done")]
    /\ open' = StillOpen(t, open)
    /\ cur' = NoTask
    /\ Release(t[1])
    /\ UNCHANGED results
    /\ IF CatchesException
       THEN UNCHANGED <<mainpc, reported, runstate>>
       ELSE /\ mainpc' = "prompt"
            /\ reported' = "An unexpected error occurred"
            /\ runstate' = [runstate EXCEPT ![nruns] = "aborted"]

probeFrame == <<args, crash, client, lastReq, readVars, nruns, runkind, runlo, runhi, lastSaved, atInterrupt>>

\* get_modbus_client and client.connect(): the socket opens, or no connection
\* is made and the probe ends in its except clause without a request sent
probe_connect ==
    /\ mainpc = "running"
    /\ cur # NoTask
    /\ tpc[cur] = "admitted"
    /\ \E outcome \in {"connected", "connect_failed"} :
          IF outcome = "connected"
          THEN /\ tpc' = [tpc EXCEPT ![cur] = "connected"]
               /\ open' = open \cup {ProbeClient(cur)}
               /\ UNCHANGED <<sem, waiters, results, ready, cur, tresp, mainpc, reported, runstate>>
          ELSE ProbeRaised(cur, "connect_failed")
    /\ UNCHANGED probeFrame

\* client.read_input_registers(0, 1, unit=unit_id), or client.execute of the
\* request built for function_code: a data response, a response whose isError()
\* is true (a Modbus exception response), or an exception (timeout, I/O error,
\* malformed frame), which skips client.close()
probe_request ==
    /\ mainpc = "running"
    /\ cur # NoTask
    /\ tpc[cur] = "connected"
    /\ \E outcome \in {"success", "exception_response", "raised"} :
          IF outcome = "raised"
          THEN ProbeRaised(cur, "raised")
          ELSE /\ tresp' = [tresp EXCEPT ![cur] = outcome]
               /\ tpc' = [tpc EXCEPT ![cur] = "responded"]
               /\ UNCHANGED <<sem, waiters, results, ready, cur, open, mainpc, reported, runstate>>
    /\ UNCHANGED probeFrame

\* request.isError()
IsError(response) == response # "success"

\* the append without the isError() test
AppendsAnyResponse(response) == TRUE

\* if not request.isError(): results.append(...)
Appends(response) == ~IsError(response)

\* client.close(), the append of the unit id / function code, and the release
probe_finish ==
    /\ mainpc = "running"
    /\ cur # NoTask
    /\ tpc[cur] = "responded"
    /\ open' = open \ {ProbeClient(cur)}
    /\ results' = [results EXCEPT ![cur[1]] = IF Appends(tresp[cur]) THEN Append(@, cur[2]) ELSE @]
    /\ tpc' = [tpc EXCEPT ![cur] = Ended(cur, "done")]
    /\ tresp' = [tresp EXCEPT ![cur] = Ended(cur, @)]
    /\ cur' = NoTask
    /\ Release(cur[1])
    /\ UNCHANGED <<mainVars, readVars, runVars>>

\* gather is done when every task of the call is: run_until_complete returns
run_complete ==
    /\ mainpc = "running"
    /\ cur = NoTask
    /\ \A t \in TasksOf(nruns) : tpc[t] \in Terminal
    /\ mainpc' = "after_run"
    /\ runstate' = [runstate EXCEPT ![nruns] = "completed"]
    /\ UNCHANGED <<args, crash, client, reported, lastReq, readVars,
                   nruns, runkind, runlo, runhi, lastSaved, atInterrupt, loopVars>>

\* run_until_complete without its except clause
KeyboardInterruptNotCaught == FALSE

\* except KeyboardInterrupt around loop.run_until_complete
CatchesKeyboardInterrupt == TRUE

\* Ctrl-C while run_until_complete runs.  The KeyboardInterrupt is raised in
\* the task that is running, if any: it is no Exception, so it passes the
\* except clause of the probe, "async with" releases the semaphore, and the
\* task ends with it; it then leaves run_until_complete.  The tasks still in
\* the ready queue stay there.
keyboard_interrupt ==
    /\ mainpc = "running"
    /\ IF cur # NoTask
       THEN /\ tpc' = [tpc EXCEPT ![cur] = Ended(cur, "abandoned")]
            /\ tresp' = [tresp EXCEPT ![cur] = Ended(cur, @)]
            /\ open' = StillOpen(cur, open)
            /\ Release(cur[1])
       ELSE UNCHANGED <<tpc, tresp, open, sem, waiters, ready>>
    /\ cur' = NoTask
    /\ runstate' = [runstate EXCEPT ![nruns] = "interrupted"]
    /\ atInterrupt' = results[nruns]
    /\ IF CatchesKeyboardInterrupt
       THEN /\ mainpc' = "after_run"
            /\ reported' = "interrupted by user"
            /\ UNCHANGED <<crash, client>>
       ELSE /\ mainpc' = "crashed"
            /\ crash' = "KeyboardInterrupt"
            /\ client' = "closed"
            /\ reported' = "traceback"
    /\ UNCHANGED <<args, lastReq, readVars, nruns, runkind, runlo, runhi, lastSaved, results>>

\* the objects that nothing refers to any more once the call has returned: its
\* arguments, the tasks that have ended, and the semaphore and results list of
\* a call none of whose tasks is left
Live(r) == \E t \in Tasks : t[1] = r /\ tpc[t] \in {"pending", "waiting"}

Forget ==
    /\ tpc' = [t \in Tasks |-> IF tpc[t] \in Terminal THEN "none" ELSE tpc[t]]
    /\ tresp' = [t \in Tasks |-> IF tpc[t] \in Terminal THEN "none" ELSE tresp[t]]
    /\ open' = {c \in open : c \in Tasks => tpc[c] \notin Terminal}
    /\ results' = [r \in Runs |-> IF Live(r) THEN results[r] ELSE <<>>]
    /\ sem' = [r \in Runs |-> IF Live(r) THEN sem[r] ELSE 0]
    /\ runkind' = [r \in Runs |-> "none"]
    /\ runlo' = [r \in Runs |-> 0]
    /\ runhi' = [r \in Runs |-> 0]
    /\ runstate' = [r \in Runs |-> IF Live(r) THEN runstate[r] ELSE "none"]

\* what is written to the results file: the list, when it is not empty
Saved(r, res) == IF res # <<>> THEN <<r, res>> ELSE lastSaved

\* scan_modbus_unit_ids after the try: the results are saved when there are any
scan_modbus_unit_ids_save ==
    /\ mainpc = "after_run"
    /\ runkind[nruns] = "scan"
    /\ lastSaved' = Saved(nruns, results[nruns])
    /\ reported' = IF results[nruns] # <<>> THEN "Valid Unit IDs saved" ELSE "No valid Unit IDs found"
    /\ mainpc' = "prompt"
    /\ Forget
    /\ UNCHANGED <<args, crash, client, lastReq, readVars, nruns, atInterrupt, waiters, ready, cur>>

\* brute_force_function_codes returns results and main saves them when there are any
brute_force_function_codes_save ==
    /\ mainpc = "after_run"
    /\ runkind[nruns] = "brute"
    /\ lastSaved' = Saved(nruns, results[nruns])
    /\ reported' = IF results[nruns] # <<>> THEN "Valid function codes saved" ELSE "No valid function codes found"
    /\ mainpc' = "prompt"
    /\ Forget
    /\ UNCHANGED <<args, crash, client, lastReq, readVars, nruns, atInterrupt, waiters, ready, cur>>

----------------------------------------------------------------------------

Next ==
    \/ main_connect
    \/ read_all_data_read
    \/ read_all_data_report
    \/ read_all_data_translate
    \/ read_all_data_return
    \/ main_read_all
    \/ main_read
    \/ main_write
    \/ main_response
    \/ main_bruteforce_bad_code
    \/ main_exit
    \/ scan_modbus_unit_ids
    \/ brute_force_function_codes
    \/ task_start
    \/ probe_connect
    \/ probe_request
    \/ probe_finish
    \/ run_complete
    \/ keyboard_interrupt
    \/ scan_modbus_unit_ids_save
    \/ brute_force_function_codes_save

Spec == Init /\ [][Next]_vars

----------------------------------------------------------------------------
(* Claims *)

RunCompleted == mainpc = "after_run" /\ runstate[nruns] = "completed"

\* C1: for every scan and brute force, the probes that were admitted by its
\* semaphore and have not ended never outnumber max_concurrent_tasks, and a
\* probe is kept waiting at the semaphore only while no slot is free.
C1_ConcurrencyBound ==
    /\ \A r \in Runs : Cardinality(InFlight(r)) <= args.max_concurrent_tasks
    /\ \A t \in Tasks : tpc[t] = "waiting" =>
          \/ Locked(sem[t[1]])
          \/ t \in SeqSet(ready)

\* a probe holds the last free slot while another probe of its call has not started
C1_Witness ==
    \E r \in Runs :
       /\ args.max_concurrent_tasks >= 1
       /\ Cardinality(InFlight(r)) = args.max_concurrent_tasks
       /\ \E t \in Tasks : t[1] = r /\ tpc[t] = "pending"

\* C2: when an uninterrupted scan has ended, its results hold exactly the
\* unit ids of the range whose probe got a successful response, each once.
C2_ScanResultsExact ==
    (RunCompleted /\ runkind[nruns] = "scan") =>
        LET res == results[nruns]
        IN  /\ SeqSet(res) = {i \in runlo[nruns]..runhi[nruns] : tresp[<<nruns, i>>] = "success"}
            /\ Len(res) = Cardinality(SeqSet(res))
            /\ SeqSet(res) \subseteq args.unit_id_from..args.unit_id_to

\* a completed scan in which one unit answered and another one did not
C2_Witness ==
    /\ RunCompleted
    /\ runkind[nruns] = "scan"
    /\ results[nruns] # <<>>
    /\ \E t \in TasksOf(nruns) : tresp[t] \in {"raised", "connect_failed", "exception_response"}

\* the running probe ends in a failure: an exception, or an error response
ProbeFails ==
    /\ cur # NoTask
    /\ cur' = NoTask
    /\ runstate'[nruns] # "interrupted"
    /\ \/ tpc[cur] \in {"admitted", "connected"}
       \/ tpc[cur] = "responded" /\ tresp[cur] # "success"

\* C3: a probe that fails leaves the scan or brute force running, leaves the
\* collected results and every other probe as they were, and when the call
\* completes every value of the range has been probed.
C3_FailureIsolated ==
    /\ [][ProbeFails =>
             /\ mainpc' = "running"
             /\ results' = results
             /\ ready' = ready
             /\ \A u \in Tasks \ {cur} : tpc'[u] = tpc[u]]_vars
    /\ [](RunCompleted =>
             \A t \in TasksOf(nruns) : tpc[t] = "done" /\ tresp[t] # "none")

\* a probe failed, and a later probe of the same call succeeded and was recorded
C3_Witness ==
    /\ RunCompleted
    /\ \E t \in TasksOf(nruns), u \in TasksOf(nruns) :
          /\ t[2] < u[2]
          /\ tresp[t] \in {"raised", "connect_failed"}
          /\ tresp[u] = "success"
          /\ u[2] \in SeqSet(results[nruns])

\* C4: an interrupt during a scan or brute force is not left unhandled, and
\* what had been appended to the results when it arrived is what is saved.
C4_InterruptKeepsResults ==
    /\ crash # "KeyboardInterrupt"
    /\ (mainpc = "after_run" /\ runstate[nruns] = "interrupted") => results[nruns] = atInterrupt
    /\ (mainpc = "prompt" /\ atInterrupt # <<>>) => lastSaved = <<nruns, atInterrupt>>

\* results were saved after an interrupt that left probes of the call unstarted
C4_Witness ==
    /\ mainpc = "prompt"
    /\ atInterrupt # <<>>
    /\ lastSaved = <<nruns, atInterrupt>>
    /\ \E t \in Tasks : t[1] = nruns /\ tpc[t] = "pending"

\* C5: a probe of an interrupted call that had not been admitted when the
\* interrupt arrived never starts afterwards.
C5_NoStartAfterInterrupt ==
    [][\A t \in Tasks :
          (runstate[t[1]] = "interrupted" /\ tpc[t] \in {"pending", "waiting"})
              => tpc'[t] \in {"pending", "waiting"}]_vars

\* C6: whenever read_all_data returns, all four register spaces have been
\* asked for, in the order coils, discrete inputs, input registers, holding
\* registers.
C6_AllSpacesAttempted ==
    (InReadAll /\ rapc = "returned") => attempted = RegisterSpaces

\* a list of bool or of register values, as a data response yields it
LooksLikeDeviceData(x) ==
    /\ x.ty = "list"
    /\ \A i \in 1..Len(x.v) : x.v[i].ty \in {"bool", "int"}

\* C7: the row displayed and exported for a register space whose response
\* was an error is no sequence of bool or register values.
C7_ErrorRowIsPlaceholder ==
    \A i \in 1..Len(records) :
        rresp[RegisterSpaces[i]] = "error" => ~LooksLikeDeviceData(records[i].data)

\* C8: once connected, main is never left by an unhandled error.
C8_NoErrorEndsProcess ==
    crash \notin {"ValueError", "ModbusException", "Exception"}

\* the most items one read may ask for: 2000 coils or discrete inputs, 125 registers
PerCallLimit(register_type) ==
    IF register_type \in {"coils", "discrete_inputs"} THEN 2000 ELSE 125

\* C9: no read request is handed to the client with more items than the
\* per-call limit of its register space.
C9_OversizedReadRejected ==
    \A i \in 1..Len(lastReq) :
        lastReq[i].op = "read" => lastReq[i].count <= PerCallLimit(lastReq[i].type)

\* C10: a probe that ended with a Modbus exception response has its unit id
\* or function code in the results.
C10_ExceptionCountsAsPositive ==
    \A t \in Tasks :
        (tpc[t] = "done" /\ tresp[t] = "exception_response") => t[2] \in SeqSet(results[t[1]])

\* C11: a probe works on the client it made itself, never on the session's
\* client; the session's client has at most one request outstanding, which it
\* has only while main waits for the answer; and while a probe runs, main has
\* no request and no read_all_data under way on the session's client.
C11_ConnectionsNotShared ==
    /\ SessionClient \notin open
    /\ open \subseteq Tasks
    /\ \A t \in Tasks : tpc[t] \in {"connected", "responded"} => (t = cur /\ ProbeClient(t) \in open)
    /\ Len(lastReq) <= 1
    /\ lastReq # <<>> => (mainpc \in {"reading", "writing"} /\ cur = NoTask)
    /\ cur # NoTask => (mainpc = "running" /\ lastReq = <<>> /\ rapc = "idle")

\* a probe is connected on its own client while the session's client is
\* connected and the client of another probe is still open
C11_Witness ==
    /\ cur # NoTask
    /\ tpc[cur] = "connected"
    /\ ProbeClient(cur) \in open
    /\ client = "connected"
    /\ \E c \in open : c # ProbeClient(cur)

\* C12: the client of a probe that has ended is closed, whether the request
\* succeeded, answered with an error response, or connect or the request
\* raised; when a scan or a brute force has finished no probe client is open;
\* and when main has ended the session's client is closed.
C12_ConnectionsClosed ==
    /\ \A t \in Tasks : tpc[t] \in Terminal => ProbeClient(t) \notin open
    /\ mainpc = "after_run" => open = {}
    /\ mainpc \in {"exited", "terminated", "crashed"} => client = "closed"

====
